---- MODULE Spec2Model ----
(***************************************************************************)
(* A model of rstest's test-parameterization front end:                    *)
(*   rstest_macros/src/parse/rstest.rs  (RsTestInfo, RsTestData,           *)
(*   RsTestItem, FilesExtractor, RsTestAttributes)                         *)
(* together with the validator, the fixture dependency resolver and the    *)
(* expansion engine that consume the parsed model.                         *)
(***************************************************************************)
EXTENDS Integers, Sequences, FiniteSets, TLC

VARIABLES
    pc,        \* position of the pipeline
    entries,   \* the inline entries of the specification, as written
    item_fn,   \* the annotated function: its attributes and its arguments' attributes
    ex,        \* what the extractors of the other modules return for this function
    items,     \* RsTestData.items
    attributes,\* RsTestInfo.attributes (RsTestAttributes)
    arguments, \* RsTestInfo.arguments (ArgumentsInfo): futures and global await
    result,    \* what the last fallible call returned
    errors,    \* the error set reported for the specification
    roots,     \* resolver: fixtures not yet used as a traversal root
    stack,     \* resolver: the in-progress path, one frame per fixture
    done,      \* resolver: fixtures whose traversal is complete
    cycle,     \* resolver: the reported cycle path
    out,       \* the invocation sequence produced by expansion
    call       \* the last call made on the attributes: the method and its argument

vars == <<pc, entries, item_fn, ex, items, attributes, arguments, result, errors,
          roots, stack, done, cycle, out, call>>

(***************************************************************************)
(* Bounds of the model.                                                    *)
(***************************************************************************)
MaxItems == 3

MaxErrs == 1

MaxAttrs == 2

MaxCalls == 3

(***************************************************************************)
(* Generic sequence helpers.                                               *)
(***************************************************************************)
Indices(s) == [i \in 1..Len(s) |-> i]

MapSeq(s, F(_)) == [i \in 1..Len(s) |-> F(s[i])]

RECURSIVE Flatten(_)
Flatten(ss) == IF ss = <<>> THEN <<>> ELSE Head(ss) \o Flatten(Tail(ss))

SeqsUpTo(S, n) == UNION {[1..k -> S] : k \in 0..n}

(***************************************************************************)
(* Results: Ok(value) or Err(errors), errors being an ErrorsVec.           *)
(***************************************************************************)
Ok(v) == [ok |-> TRUE, val |-> v, errs |-> <<>>]

Err(es) == [ok |-> FALSE, val |-> <<>>, errs |-> es]

ErrorOn(kind, name, marker) == [kind |-> kind, name |-> name, marker |-> marker]

Error(kind, name) == ErrorOn(kind, name, "")


(***************************************************************************)
(* RsTestItem: the five variants.  `vals` holds the fixture's positional   *)
(* arguments, the case's values, the value list's values or the files of   *)
(* the data set's hierarchy.                                               *)
(***************************************************************************)
Fixture(name, args) == [kind |-> "Fixture", name |-> name, vals |-> args]

CaseArgName(name) == [kind |-> "CaseArgName", name |-> name, vals |-> <<>>]

TestCase(values) == [kind |-> "TestCase", name |-> "", vals |-> values]

ValueList(name, values) == [kind |-> "ValueList", name |-> name, vals |-> values]

\* Files: the hierarchy (its files), the whole-record args, the field args
Files(records, data, args) ==
    [kind |-> "Files", name |-> "", vals |-> records, data |-> data, args |-> args]

Files_from(hierarchy) == Files(hierarchy, <<>>, <<>>)

StructField(ident, field) == [ident |-> ident, field |-> field]

(***************************************************************************)
(* RsTestData: the filtered views over the item sequence.                  *)
(***************************************************************************)
\* a view that stops at its first match (find_map for filter_map)
first_only(s) == IF s = <<>> THEN <<>> ELSE <<Head(s)>>

case_args_first(its) == first_only(SelectSeq(its, LAMBDA it : it.kind = "CaseArgName"))

cases_first(its) == first_only(SelectSeq(its, LAMBDA it : it.kind = "TestCase"))

fixtures_first(its) == first_only(SelectSeq(its, LAMBDA it : it.kind = "Fixture"))

list_values_first(its) == first_only(SelectSeq(its, LAMBDA it : it.kind = "ValueList"))

case_args(its) == SelectSeq(its, LAMBDA it : it.kind = "CaseArgName")

has_case_args(its) == case_args(its) # <<>>

cases(its) == SelectSeq(its, LAMBDA it : it.kind = "TestCase")

has_cases(its) == cases(its) # <<>>

fixtures(its) == SelectSeq(its, LAMBDA it : it.kind = "Fixture")

has_fixtures(its) == fixtures(its) # <<>>

list_values(its) == SelectSeq(its, LAMBDA it : it.kind = "ValueList")

\* the test made on the whole item sequence
has_list_values_any(its) == its # <<>>

has_list_values(its) == list_values(its) # <<>>

\* Option<&Files>: the empty sequence is None, a one-element sequence is Some
files(its) ==
    LET fs == SelectSeq(its, LAMBDA it : it.kind = "Files")
    IN  IF fs = <<>> THEN <<>> ELSE <<Head(fs)>>

(***************************************************************************)
(* Inline entries `name(...)`, `name => [...]`, `name`, and their          *)
(* classification by RsTestItem::parse.                                    *)
(***************************************************************************)
Entry(form, name, vals) == [form |-> form, name |-> name, vals |-> vals]

\* TestCase::parse accepts `case(...)` and `case::description(...)`
TestCase_parses(e) == e.form = "call" /\ e.name = "case"

\* ValueList::parse refuses an empty expression list
ValueList_parse(e) ==
    IF e.vals = <<>>
    THEN Err(<<Error("EmptyValueList", e.name)>>)
    ELSE Ok(ValueList(e.name, e.vals))

\* Fixture::parse needs positional arguments (or a rename)
Fixture_parses(e) == e.form = "call"

\* the fixture tried before the test case
RsTestItem_parse_fixture_first(e) ==
    IF e.form = "arrow" THEN ValueList_parse(e)
    ELSE IF Fixture_parses(e) THEN Ok(Fixture(e.name, e.vals))
    ELSE IF TestCase_parses(e) THEN Ok(TestCase(e.vals))
    ELSE IF e.form = "ident" THEN Ok(CaseArgName(e.name))
    ELSE Err(<<Error("CannotParse", e.name)>>)

RsTestItem_parse(e) ==
    IF TestCase_parses(e) THEN Ok(TestCase(e.vals))
    ELSE IF e.form = "arrow" THEN ValueList_parse(e)
    ELSE IF Fixture_parses(e) THEN Ok(Fixture(e.name, e.vals))
    ELSE IF e.form = "ident" THEN Ok(CaseArgName(e.name))
    ELSE Err(<<Error("CannotParse", e.name)>>)

\* parse_vector_trailing_till_double_comma: every entry in order, the first
\* failure ends the parse
RECURSIVE parse_vector(_)
parse_vector(es) ==
    IF es = <<>> THEN Ok(<<>>)
    ELSE LET h == RsTestItem_parse(Head(es))
         IN  IF ~h.ok THEN h
             ELSE LET t == parse_vector(Tail(es))
                  IN  IF ~t.ok THEN t ELSE Ok(<<h.val>> \o t.val)

RsTestData_parse(es) == parse_vector(es)

(***************************************************************************)
(* Conflict validator: every rule is evaluated and the failures of all     *)
(* rules are aggregated into one error set.                                *)
(***************************************************************************)
injected(fx) == fx.vals # <<>>

no_matching_argument(its, params) ==
    MapSeq(SelectSeq(list_values(its) \o case_args(its),
                     LAMBDA it : it.name \notin params),
           LAMBDA it : Error("NoMatchingArgument", it.name))

empty_value_list(its) ==
    MapSeq(SelectSeq(list_values(its), LAMBDA v : v.vals = <<>>),
           LAMBDA v : Error("EmptyValueList", v.name))

conflicting_binding(its) ==
    LET fx == SelectSeq(fixtures(its), injected)
    IN  MapSeq(SelectSeq(list_values(its),
                         LAMBDA v : \E i \in 1..Len(fx) : fx[i].name = v.name),
               LAMBDA v : Error("ConflictingBinding", v.name))

duplicate_injection(its) ==
    LET fx == SelectSeq(fixtures(its), injected)
    IN  MapSeq(SelectSeq(Indices(fx),
                         LAMBDA j : \E i \in 1..(j - 1) : fx[i].name = fx[j].name),
               LAMBDA j : Error("DuplicateInjection", fx[j].name))

arity_mismatch(its) ==
    LET n == Len(case_args(its))
    IN  MapSeq(SelectSeq(cases(its), LAMBDA c : Len(c.vals) # n),
               LAMBDA c : Error("ArityMismatch", ""))

validate(its, params) ==
    no_matching_argument(its, params) \o empty_value_list(its)
        \o conflicting_binding(its) \o duplicate_injection(its)
        \o arity_mismatch(its)

(***************************************************************************)
(* Fixture dependency resolver: a flat table of fixtures indexed by name,  *)
(* an edge from a fixture to every other fixture named among its args.     *)
(***************************************************************************)
fixture_names(its) == MapSeq(fixtures(its), LAMBDA f : f.name)

deps(its, name) ==
    LET fx    == fixtures(its)
        names == {fx[i].name : i \in 1..Len(fx)}
        args  == Flatten(MapSeq(SelectSeq(fx, LAMBDA f : f.name = name),
                                LAMBDA f : f.vals))
    IN  SelectSeq(args, LAMBDA a : a \in names /\ a # name)

Frame(node, rest) == [node |-> node, rest |-> rest]

in_progress(stk) == {stk[i].node : i \in 1..Len(stk)}

\* the path from the revisited node to the top of the stack, closed by the node
cycle_path(stk, m) ==
    LET k == CHOOSE i \in 1..Len(stk) : stk[i].node = m
    IN  [i \in 1..(Len(stk) - k + 1) |-> stk[k + i - 1].node] \o <<m>>

(***************************************************************************)
(* Expansion engine: the ordered Cartesian product of the case table, the  *)
(* file rows and the value-list axes.                                      *)
(***************************************************************************)
RECURSIVE matrix(_)
matrix(lv) ==
    IF lv = <<>> THEN << <<>> >>
    ELSE LET rest == matrix(Tail(lv))
         IN  Flatten([i \in 1..Len(Head(lv).vals) |->
                         [k \in 1..Len(rest) |-> <<i>> \o rest[k]]])

\* the indices of one axis; an absent axis contributes the single index 0
axis_range(s) == IF s = <<>> THEN <<0>> ELSE Indices(s)

expand(its) ==
    LET cs == cases(its)
        an == case_args(its)
        lv == list_values(its)
        fl == files(its)
        crange == axis_range(cs)
        rrange == IF fl = <<>> THEN <<0>> ELSE axis_range(fl[1].vals)
        sels   == matrix(lv)
        invocation(c, r, sel) ==
            [name |-> <<c>> \o sel \o <<r>>,
             case |-> c, row |-> r, sel |-> sel,
             bindings |->
                (IF c = 0 THEN <<>>
                 ELSE [k \in 1..Len(an) |->
                          [arg |-> an[k].name, expr |-> cs[c].vals[k]]])
                \o [j \in 1..Len(lv) |->
                          [arg |-> lv[j].name, expr |-> lv[j].vals[sel[j]]]]
                \o (IF r = 0 THEN <<>>
                    ELSE <<[arg |-> "", expr |-> fl[1].vals[r]]>>)]
    IN  Flatten([ci \in 1..Len(crange) |->
            Flatten([ri \in 1..Len(rrange) |->
                [si \in 1..Len(sels) |->
                    invocation(crange[ci], rrange[ri], sels[si])]])])

(***************************************************************************)
(* The annotated function.  An attribute is #[name] (meta "path"),         *)
(* #[name(arg)] (meta "list") or #[name = arg] (meta "namevalue"); `arg`   *)
(* is a string literal's value, or "?" for tokens that are no literal.     *)
(***************************************************************************)
Attr(name, meta, arg) == [name |-> name, meta |-> meta, arg |-> arg]

FnArg(name, attrs) == [name |-> name, attrs |-> attrs]

ItemFn(attrs, args) == [attrs |-> attrs, args |-> args]

attr_is(a, name) == a.name = name

fn_params(fn) == {fn.args[i].name : i \in 1..Len(fn.args)} \ {""}

\* Attribute::parse_args::<LitStr>
parse_args_LitStr(a) ==
    IF a.meta = "list" /\ a.arg # "?" THEN Ok(a.arg)
    ELSE Err(<<ErrorOn("AttributeSyntax", "", a.name)>>)

\* Folder::fake and Folder::build_hierarchy of the test build: the files of
\* the hierarchy, whatever the path
Folder_fake == <<"foo", "bar">>

build_hierarchy(path) == Ok(Folder_fake)

attribute_used_more_than_once(argname, name) ==
    ErrorOn("DuplicateAttributeUsage", argname, name)

(***************************************************************************)
(* maybe_parse_attribute_args_just_once and attribute_args_once: the       *)
(* first use of a marker on an argument, and the errors of the others.     *)
(* An Option is the empty sequence (None) or a one-element sequence.       *)
(***************************************************************************)
\* one step of the fold: `first` so far and the next use of the marker
just_once_step(acc, a, argname, name) ==
    LET res == IF a.meta = "path" THEN <<>> ELSE <<parse_args_LitStr(a)>>
    IN  IF acc.val = <<>> /\ res = <<>>
        THEN [acc EXCEPT !.val = << <<>> >>]
        ELSE IF acc.val = <<>> /\ res[1].ok
        THEN [acc EXCEPT !.val = << <<res[1].val>> >>]
        ELSE IF res # <<>> /\ ~res[1].ok
        THEN [acc EXCEPT !.errs = @ \o res[1].errs]
        ELSE [acc EXCEPT !.errs =
                 Append(@, attribute_used_more_than_once(argname, name))]

RECURSIVE just_once_fold(_, _, _, _)
just_once_fold(acc, uses, argname, name) ==
    IF uses = <<>> THEN acc
    ELSE just_once_fold(just_once_step(acc, Head(uses), argname, name),
                        Tail(uses), argname, name)

maybe_parse_attribute_args_just_once(node, name) ==
    just_once_fold([val |-> <<>>, errs |-> <<>>],
                   SelectSeq(node.attrs, LAMBDA a : attr_is(a, name)),
                   node.name, name)

attribute_args_once(node, name) ==
    LET found == SelectSeq(node.attrs, LAMBDA a : attr_is(a, name))
        syntax == MapSeq(SelectSeq(found, LAMBDA a : a.meta # "path"),
                         LAMBDA a : ErrorOn("AttributeSyntax", node.name, name))
        more == IF found = <<>> THEN <<>>
                ELSE MapSeq(Tail(found),
                            LAMBDA a : attribute_used_more_than_once(node.name, name))
    IN  [val |-> IF found = <<>> THEN <<>> ELSE <<Head(found)>>,
         errs |-> syntax \o more]

(***************************************************************************)
(* FilesExtractor(Option<Files>, Vec<Error>)                               *)
(***************************************************************************)
\* the loop of visit_item_fn_mut over the function's attributes
\* parse_args::<LitStr>().and_then(Folder::build_hierarchy)
and_then_build_hierarchy(p) == IF p.ok THEN build_hierarchy(p.val) ELSE p

\* the data set dropped by a locator that does not resolve
on_json_reset(ext, h) ==
    IF h.ok THEN [ext EXCEPT !.files = <<Files_from(h.val)>>]
    ELSE [ext EXCEPT !.files = <<>>, !.errs = @ \o h.errs]

on_json(ext, h) ==
    IF h.ok THEN [ext EXCEPT !.files = <<Files_from(h.val)>>]
    ELSE [ext EXCEPT !.errs = @ \o h.errs]

\* the buffer overwritten by each attribute that is kept
visit_fn_attr_last(ext, attr) ==
    IF attr_is(attr, "json")
    THEN on_json(ext, and_then_build_hierarchy(parse_args_LitStr(attr)))
    ELSE [ext EXCEPT !.attrs_buffer = <<attr>>]

visit_fn_attr(ext, attr) ==
    IF attr_is(attr, "json")
    THEN on_json(ext, and_then_build_hierarchy(parse_args_LitStr(attr)))
    ELSE [ext EXCEPT !.attrs_buffer = Append(@, attr)]

with_errors(ext, errs) == [ext EXCEPT !.errs = @ \o errs]

\* a marker found on argument `name`: recorded in the data set, or an error
on_field(ext, name, val) ==
    IF val = <<>> THEN ext
    ELSE IF ext.files # <<>>
    THEN [ext EXCEPT !.files[1].args = Append(@, StructField(name, val[1]))]
    ELSE [ext EXCEPT !.errs =
             Append(@, ErrorOn("FileAttributeWithoutDataset", name, "field"))]

on_data(ext, name, val) ==
    IF val = <<>> THEN ext
    ELSE IF ext.files # <<>>
    THEN [ext EXCEPT !.files[1].data = Append(@, name)]
    ELSE [ext EXCEPT !.errs =
             Append(@, ErrorOn("FileAttributeWithoutDataset", name, "data"))]

visit_field(ext, node, f) == with_errors(on_field(ext, node.name, f.val), f.errs)

visit_data(ext, node, d) == with_errors(on_data(ext, node.name, d.val), d.errs)

visit_fn_arg_mut(ext, node) ==
    IF node.name = "" THEN ext
    ELSE visit_data(visit_field(ext, node,
                                maybe_parse_attribute_args_just_once(node, "field")),
                    node, attribute_args_once(node, "data"))

RECURSIVE visit_fn_attrs(_, _)
visit_fn_attrs(ext, attrs) ==
    IF attrs = <<>> THEN ext
    ELSE visit_fn_attrs(visit_fn_attr(ext, Head(attrs)), Tail(attrs))

\* syn::visit_mut::visit_item_fn_mut: the arguments of the signature in order
RECURSIVE visit_fn_args(_, _)
visit_fn_args(ext, args) ==
    IF args = <<>> THEN ext
    ELSE visit_fn_args(visit_fn_arg_mut(ext, Head(args)), Tail(args))

visit_item_fn_mut(ext, node) ==
    visit_fn_args(visit_fn_attrs(ext, node.attrs), node.args)

FilesExtractor_default == [files |-> <<>>, errs |-> <<>>, attrs_buffer |-> <<>>]

\* extract_files: the result and the function as the visit leaves it
extractor_result(ext, fn) ==
    [res |-> IF ext.errs = <<>> THEN Ok(ext.files) ELSE Err(ext.errs),
     item_fn |-> [fn EXCEPT !.attrs = ext.attrs_buffer]]

extract_files(fn) == extractor_result(visit_item_fn_mut(FilesExtractor_default, fn), fn)

(***************************************************************************)
(* merge_errors!: every argument is evaluated; the result is the tuple of  *)
(* the values when all succeeded and the concatenation of all the error    *)
(* sets otherwise.                                                         *)
(***************************************************************************)
merge_errors(rs) ==
    IF \A i \in 1..Len(rs) : rs[i].ok
    THEN Ok(MapSeq(rs, LAMBDA r : r.val))
    ELSE Err(Flatten(MapSeq(rs, LAMBDA r : r.errs)))

\* ValueListFromFiles::to_value_list: one value list per files argument, or
\* the first error of the resolution of their globs
to_value_list(files_args, glob) ==
    IF files_args = <<>> THEN Ok(<<>>) ELSE glob

(***************************************************************************)
(* RsTestData::extend_with_function_attrs                                  *)
(***************************************************************************)
\* the items are extended only when every extractor succeeded; the value
\* lists of the files arguments come last and may still fail
\* the new items put in front of the existing ones
extend_items_front(its, m, vl) ==
    IF ~m.ok THEN [res |-> Err(m.errs), items |-> its]
    ELSE IF ~vl.ok
    THEN [res |-> Err(vl.errs),
          items |-> m.val[1] \o m.val[2] \o m.val[3] \o m.val[4] \o m.val[5] \o its]
    ELSE [res |-> Ok(<<>>),
          items |-> m.val[1] \o m.val[2] \o m.val[3] \o m.val[4] \o m.val[5]
                        \o vl.val \o its]

extend_items(its, m, vl) ==
    IF ~m.ok THEN [res |-> Err(m.errs), items |-> its]
    ELSE IF ~vl.ok
    THEN [res |-> Err(vl.errs),
          items |-> its \o m.val[1] \o m.val[2] \o m.val[3] \o m.val[4] \o m.val[5]]
    ELSE [res |-> Ok(<<>>),
          items |-> its \o m.val[1] \o m.val[2] \o m.val[3] \o m.val[4] \o m.val[5]
                        \o vl.val]

\* the items extended with what each extractor returned, whatever the others did
data_extend_eager(its, fe, x) ==
    [res_items |->
        [res |-> extend_items(its,
                     merge_errors(<<x.fixtures, x.case_args, x.cases, x.value_list,
                                    fe.res, x.files_args>>),
                     to_value_list(x.files_args.val, x.glob)).res,
         items |-> its \o x.fixtures.val \o x.case_args.val \o x.cases.val
                       \o x.value_list.val],
     item_fn |-> fe.item_fn]

data_extend(its, fe, x) ==
    [res_items |-> extend_items(its,
                      merge_errors(<<x.fixtures, x.case_args, x.cases, x.value_list,
                                     fe.res, x.files_args>>),
                      to_value_list(x.files_args.val, x.glob)),
     item_fn |-> fe.item_fn]

RsTestData_extend_with_function_attrs(its, fn, x) ==
    data_extend(its, extract_files(fn), x)

(***************************************************************************)
(* RsTestAttributes                                                        *)
(***************************************************************************)
Attribute_Attr(id) == [tag |-> "Attr", id |-> id, args |-> <<>>]

Attribute_Tagged(id, args) == [tag |-> "Tagged", id |-> id, args |-> args]

is_trace(m) == m.tag = "Attr" /\ m.id = "trace"

is_notrace(ident, m) ==
    m.tag = "Tagged" /\ m.id = "notrace" /\ \E i \in 1..Len(m.args) : m.args[i] = ident

should_trace(attrs) == \E i \in 1..Len(attrs) : is_trace(attrs[i])

\* the notrace lists consulted without looking for `trace`
trace_me_unguarded(attrs, ident) ==
    ~\E i \in 1..Len(attrs) : is_notrace(ident, attrs[i])

trace_me(attrs, ident) ==
    IF should_trace(attrs)
    THEN ~\E i \in 1..Len(attrs) : is_notrace(ident, attrs[i])
    ELSE FALSE

add_trace(attrs, trace) == Append(attrs, Attribute_Attr(trace))

\* the collection replaced by the new entry
add_notraces_replace(attrs, notraces) ==
    IF notraces = <<>> THEN attrs
    ELSE <<Attribute_Tagged("notrace", notraces)>>

add_notraces(attrs, notraces) ==
    IF notraces = <<>> THEN attrs
    ELSE Append(attrs, Attribute_Tagged("notrace", notraces))

\* a call on the attributes and the one that stands for none yet
Call(op, arg) == [op |-> op, arg |-> arg]

NoCall == Call("", <<>>)

\* ArgumentsInfo::set_global_await and set_futures
set_global_await(args, awt) == [args EXCEPT !.global_await = awt]

set_futures(args, futures) ==
    [args EXCEPT !.futures = @ \cup {futures[i] : i \in 1..Len(futures)}]

ArgumentsInfo_default == [global_await |-> FALSE, futures |-> {}]

(***************************************************************************)
(* RsTestInfo::extend_with_function_attrs                                  *)
(***************************************************************************)
info_apply(d, m, attrs, args) ==
    IF ~m.ok
    THEN [res |-> Err(m.errs), items |-> d.res_items.items, item_fn |-> d.item_fn,
          attributes |-> attrs, arguments |-> args]
    ELSE [res |-> Ok(<<>>), items |-> d.res_items.items, item_fn |-> d.item_fn,
          attributes |-> add_notraces(attrs, m.val[2]),
          arguments |-> set_futures(set_global_await(args, m.val[5]), m.val[4])]

\* the other extractors' values applied before the merged result is looked at
info_extend_eager(d, attrs, args, x) ==
    [res |-> merge_errors(<<d.res_items.res, x.excluded, x.timeout, x.futures,
                            x.global_awt>>),
     items |-> d.res_items.items, item_fn |-> d.item_fn,
     attributes |-> add_notraces(attrs, x.excluded.val),
     arguments |-> IF x.global_awt.ok /\ x.futures.ok
                   THEN set_futures(set_global_await(args, x.global_awt.val),
                                    x.futures.val)
                   ELSE args]

info_extend(d, attrs, args, x) ==
    info_apply(d,
               merge_errors(<<d.res_items.res, x.excluded, x.timeout, x.futures,
                              x.global_awt>>),
               attrs, args)

\* `?` applied to the data's result before the other extractors are merged
info_extend_early(d, attrs, args, x) ==
    IF ~d.res_items.res.ok
    THEN [res |-> d.res_items.res, items |-> d.res_items.items, item_fn |-> d.item_fn,
          attributes |-> attrs, arguments |-> args]
    ELSE info_extend(d, attrs, args, x)

RsTestInfo_extend_early(its, attrs, args, fn, x) ==
    info_extend_early(RsTestData_extend_with_function_attrs(its, fn, x), attrs, args, x)

RsTestInfo_extend_with_function_attrs(its, attrs, args, fn, x) ==
    info_extend(RsTestData_extend_with_function_attrs(its, fn, x), attrs, args, x)

(***************************************************************************)
(* Inputs: the inline entries of a specification, the annotated functions  *)
(* and the results of the extractors defined in the other modules.         *)
(***************************************************************************)
Entries ==
    { Entry("call", "case", <<>>),
      Entry("call", "case", <<"42">>),
      Entry("ident", "a", <<>>),
      Entry("call", "f", <<"42">>),
      Entry("call", "f", <<"n">>),
      Entry("call", "n", <<"f">>),
      Entry("call", "n", <<>>),
      Entry("arrow", "f", <<"41", "42">>),
      Entry("arrow", "expected", <<"12", "34 * 2">>),
      Entry("arrow", "input", <<"format!(aa_{}, 2)", "other">>),
      Entry("arrow", "empty", <<>>),
      Entry("ident", "case", <<>>),
      Entry("literal", "42", <<>>) }

Plain(names) == MapSeq(names, LAMBDA n : FnArg(n, <<>>))

FnAll == ItemFn(<<>>, Plain(<<"expected", "input", "f", "n", "a", "empty">>))

FnFew == ItemFn(<<Attr("global", "path", "")>>, Plain(<<"f", "n">>))

FnJson ==
    ItemFn(<<Attr("json", "list", "resources/tests/*.json")>>,
           Plain(<<"expected", "input", "f", "n", "a">>)
               \o <<FnArg("user", <<Attr("data", "path", "")>>)>>)

PipeFns == {FnAll, FnFew, FnJson}

NoExtraction ==
    [fixtures |-> Ok(<<>>), case_args |-> Ok(<<>>), cases |-> Ok(<<>>),
     value_list |-> Ok(<<>>), files_args |-> Ok(<<>>), glob |-> Ok(<<>>),
     excluded |-> Ok(<<>>), timeout |-> Ok(<<>>), futures |-> Ok(<<>>),
     global_awt |-> Ok(FALSE)]

PipeEx ==
    { NoExtraction,
      [NoExtraction EXCEPT !.value_list = Ok(<<ValueList("empty", <<>>)>>)] }

(***************************************************************************)
(* The pipeline: parse the inline entries, extend the model with the       *)
(* function's attributes, validate, resolve the fixtures, expand.          *)
(***************************************************************************)
\* fn test_fn(#[values(1, 2)] vl: u32, #[case] arg: u32, #[with(42)] fx: u32)
\* under #[case(1)], and what the extractors return for it
FnDecl ==
    ItemFn(<<Attr("case", "list", "?")>>,
           <<FnArg("vl", <<Attr("values", "list", "?")>>),
             FnArg("arg", <<Attr("case", "path", "")>>),
             FnArg("fx", <<Attr("with", "list", "?")>>)>>)

ExDecl ==
    [NoExtraction EXCEPT !.fixtures = Ok(<<Fixture("fx", <<"42">>)>>),
                         !.case_args = Ok(<<CaseArgName("arg")>>),
                         !.cases = Ok(<<TestCase(<<"1">>)>>),
                         !.value_list = Ok(<<ValueList("vl", <<"1", "2">>)>>)]

PipeInputs == (PipeFns \X PipeEx) \cup {<<FnDecl, ExDecl>>}

Idle ==
    /\ entries = <<>>
    /\ items = <<>>
    /\ attributes = <<>>
    /\ arguments = ArgumentsInfo_default
    /\ result = Ok(<<>>)
    /\ errors = <<>>
    /\ roots = <<>>
    /\ stack = <<>>
    /\ done = {}
    /\ cycle = <<>>
    /\ out = <<>>
    /\ call = NoCall

Init ==
    /\ pc = "start"
    /\ \E in \in PipeInputs : item_fn = in[1] /\ ex = in[2]
    /\ Idle

Parse ==
    /\ pc = "start"
    /\ \E es \in SeqsUpTo(Entries, MaxItems) :
          LET r == RsTestData_parse(es)
          IN  /\ entries' = es
              /\ result' = r
              /\ items' = IF r.ok THEN r.val ELSE items
              /\ errors' = r.errs
              /\ pc' = IF r.ok THEN "parsed" ELSE "parse_failed"
    /\ UNCHANGED <<call, item_fn, ex, attributes, arguments, roots, stack, done, cycle, out>>

Extend ==
    /\ pc = "parsed"
    /\ \E r \in {RsTestInfo_extend_with_function_attrs(items, attributes, arguments,
                                                       item_fn, ex)} :
           /\ result' = r.res
           /\ items' = r.items
           /\ item_fn' = r.item_fn
           /\ attributes' = r.attributes
           /\ arguments' = r.arguments
           /\ errors' = r.res.errs
           /\ call' = IF r.res.ok THEN Call("add_notraces", ex.excluded.val) ELSE call
           /\ pc' = IF r.res.ok THEN "built" ELSE "extend_failed"
    /\ UNCHANGED <<entries, ex, roots, stack, done, cycle, out>>

Validate ==
    /\ pc = "built"
    /\ errors' = validate(items, fn_params(item_fn))
    /\ pc' = IF errors' = <<>> THEN "validated" ELSE "invalid"
    /\ UNCHANGED <<call, entries, item_fn, ex, items, attributes, arguments, result,
                   roots, stack, done, cycle, out>>

ResolveStart ==
    /\ pc = "validated"
    /\ pc' = "resolving"
    /\ roots' = fixture_names(items)
    /\ stack' = <<>>
    /\ done' = {}
    /\ UNCHANGED <<call, entries, item_fn, ex, items, attributes, arguments, result, errors,
                   cycle, out>>

ResolveStep ==
    /\ pc = "resolving"
    /\ IF stack = <<>>
       THEN IF roots = <<>>
            THEN /\ pc' = "resolved"
                 /\ UNCHANGED <<roots, stack, done, cycle, errors>>
            ELSE /\ roots' = Tail(roots)
                 /\ stack' = IF Head(roots) \in done THEN stack
                             ELSE <<Frame(Head(roots), deps(items, Head(roots)))>>
                 /\ UNCHANGED <<pc, done, cycle, errors>>
       ELSE LET top == stack[Len(stack)]
            IN  IF top.rest = <<>>
                THEN /\ stack' = SubSeq(stack, 1, Len(stack) - 1)
                     /\ done' = done \cup {top.node}
                     /\ UNCHANGED <<pc, roots, cycle, errors>>
                ELSE LET m    == Head(top.rest)
                         next == [stack EXCEPT ![Len(stack)].rest = Tail(@)]
                     IN  IF m \in in_progress(stack)
                         THEN /\ cycle' = cycle_path(stack, m)
                              /\ errors' = <<Error("CyclicFixtureDependency", m)>>
                              /\ pc' = "cyclic"
                              /\ UNCHANGED <<roots, stack, done>>
                         ELSE /\ stack' = IF m \in done THEN next
                                          ELSE Append(next, Frame(m, deps(items, m)))
                              /\ UNCHANGED <<pc, roots, done, cycle, errors>>
    /\ UNCHANGED <<call, entries, item_fn, ex, items, attributes, arguments, result, out>>

Expand ==
    /\ pc = "resolved"
    /\ out' = expand(items)
    /\ pc' = "expanded"
    /\ UNCHANGED <<call, entries, item_fn, ex, items, attributes, arguments, result, errors,
                   roots, stack, done, cycle>>

Next ==
    \/ Parse
    \/ Extend
    \/ Validate
    \/ ResolveStart
    \/ ResolveStep
    \/ Expand

Spec == Init /\ [][Next]_vars

(***************************************************************************)
(* Properties.  They are stated on the item sequence itself, by index, and *)
(* not through the views of RsTestData.                                    *)
(***************************************************************************)
KindIdx(its, k) == {i \in 1..Len(its) : its[i].kind = k}

OfKind(its, k) == SelectSeq(its, LAMBDA it : it.kind = k)

Count(es, kind) == Cardinality({i \in 1..Len(es) : es[i].kind = kind})

Max1(n) == IF n = 0 THEN 1 ELSE n

RECURSIVE ProdLens(_)
ProdLens(axes) ==
    IF axes = <<>> THEN 1 ELSE Len(Head(axes).vals) * ProdLens(Tail(axes))

FileRows(its) ==
    IF KindIdx(its, "Files") = {} THEN 0
    ELSE Len(its[CHOOSE i \in KindIdx(its, "Files") :
                    \A k \in KindIdx(its, "Files") : i <= k].vals)

ExpectedCount(its) ==
    Max1(Cardinality(KindIdx(its, "TestCase")))
        * ProdLens(OfKind(its, "ValueList")) * Max1(FileRows(its))

MaxLen(axes) ==
    IF axes = <<>> THEN 0
    ELSE CHOOSE n \in {Len(axes[j].vals) : j \in 1..Len(axes)} :
            \A j \in 1..Len(axes) : Len(axes[j].vals) <= n

\* every selection of one value index per axis
Selections(axes) ==
    {s \in [1..Len(axes) -> 1..MaxLen(axes)] :
        \A j \in 1..Len(axes) : s[j] <= Len(axes[j].vals)}

IndexRange(n) == IF n = 0 THEN {0} ELSE 1..n

Key(inv) == <<inv.case, inv.row>> \o inv.sel

LexLess(a, b) ==
    \E k \in 1..Len(a) : a[k] < b[k] /\ \A j \in 1..(k - 1) : a[j] = b[j]

Binding(arg, expr) == [arg |-> arg, expr |-> expr]

\* C1: for a valid specification expansion produces exactly
\* max(1, #cases) x (product of the axes' value counts) x max(1, #file rows)
\* invocations: every combination of selections once, none twice.
C1_Cardinality ==
    pc = "expanded" =>
        /\ Len(out) = ExpectedCount(items)
        /\ \A i, j \in 1..Len(out) : i # j => Key(out[i]) # Key(out[j])
        /\ \A c \in IndexRange(Cardinality(KindIdx(items, "TestCase"))) :
           \A r \in IndexRange(FileRows(items)) :
           \A s \in Selections(OfKind(items, "ValueList")) :
              \E i \in 1..Len(out) : Key(out[i]) = <<c, r>> \o s

C1_Witness ==
    /\ pc = "expanded"
    /\ Cardinality(KindIdx(items, "TestCase")) = 2
    /\ Cardinality(KindIdx(items, "ValueList")) = 1
    /\ FileRows(items) = 2
    /\ Len(out) = 8

\* C2: the invocation sequence is the ordered Cartesian product: cases and
\* file rows vary slowest, the value-list axes are nested in declaration
\* order with the last declared axis varying fastest, and every binding of an
\* axis carries the axis' expression unchanged.  The axes
\* expected => [12, 34 * 2], input => [format!(..), "other"] give 4
\* invocations (12, format!), (12, other), (34 * 2, format!), (34 * 2, other).
C2_Example ==
    << <<Binding("expected", "12"), Binding("input", "format!(aa_{}, 2)")>>,
       <<Binding("expected", "12"), Binding("input", "other")>>,
       <<Binding("expected", "34 * 2"), Binding("input", "format!(aa_{}, 2)")>>,
       <<Binding("expected", "34 * 2"), Binding("input", "other")>> >>

C2_OrderedProduct ==
    pc = "expanded" =>
        /\ \A i \in 1..(Len(out) - 1) : LexLess(Key(out[i]), Key(out[i + 1]))
        /\ \A i \in 1..Len(out) :
              /\ Len(out[i].sel) = Cardinality(KindIdx(items, "ValueList"))
              /\ \A j \in 1..Len(out[i].sel) :
                    \E k \in 1..Len(out[i].bindings) :
                       out[i].bindings[k] =
                          Binding(OfKind(items, "ValueList")[j].name,
                                  OfKind(items, "ValueList")[j].vals[out[i].sel[j]])
        /\ items = <<ValueList("expected", <<"12", "34 * 2">>),
                     ValueList("input", <<"format!(aa_{}, 2)", "other">>)>>
              => MapSeq(out, LAMBDA v : v.bindings) = C2_Example

C2_Witness ==
    /\ pc = "expanded"
    /\ items = <<ValueList("expected", <<"12", "34 * 2">>),
                 ValueList("input", <<"format!(aa_{}, 2)", "other">>)>>
    /\ Len(out) = 4

(***************************************************************************)
(* The violations of the validator's rules, by item index.                 *)
(***************************************************************************)
InjectedIdx(its) == {i \in KindIdx(its, "Fixture") : its[i].vals # <<>>}

V_NoMatch(its, params) ==
    {i \in KindIdx(its, "ValueList") \cup KindIdx(its, "CaseArgName") :
        its[i].name \notin params}

V_Empty(its) == {i \in KindIdx(its, "ValueList") : its[i].vals = <<>>}

V_Conflict(its) ==
    {i \in KindIdx(its, "ValueList") :
        \E k \in InjectedIdx(its) : its[k].name = its[i].name}

V_Dup(its) ==
    {i \in InjectedIdx(its) :
        \E k \in InjectedIdx(its) : k < i /\ its[k].name = its[i].name}

V_Arity(its) ==
    {i \in KindIdx(its, "TestCase") :
        Len(its[i].vals) # Cardinality(KindIdx(its, "CaseArgName"))}

Reported(kind, name) == \E i \in 1..Len(errors) : errors[i] = Error(kind, name)

PastValidation ==
    pc \in {"validated", "invalid", "resolving", "resolved", "cyclic", "expanded"}

\* C4: the validator evaluates every rule and reports one entry per
\* violation: k value lists / case args that match no parameter give exactly
\* k NoMatchingArgument errors, a name that violates two rules gives two
\* entries, and validation succeeds only when no rule is violated.
C4_Aggregation ==
    /\ pc = "invalid" =>
          /\ Count(errors, "NoMatchingArgument")
                = Cardinality(V_NoMatch(items, fn_params(item_fn)))
          /\ \A i \in V_NoMatch(items, fn_params(item_fn)) :
                Reported("NoMatchingArgument", items[i].name)
          /\ Len(errors) = Cardinality(V_NoMatch(items, fn_params(item_fn)))
                + Cardinality(V_Empty(items)) + Cardinality(V_Conflict(items))
                + Cardinality(V_Dup(items)) + Cardinality(V_Arity(items))
    /\ PastValidation =>
          (pc = "invalid" <=>
              \/ V_NoMatch(items, fn_params(item_fn)) # {}
              \/ V_Empty(items) # {}
              \/ V_Conflict(items) # {}
              \/ V_Dup(items) # {}
              \/ V_Arity(items) # {})

C4_Witness ==
    /\ pc = "invalid"
    /\ Count(errors, "NoMatchingArgument") >= 2
    /\ \E i, j \in 1..Len(errors) :
          errors[i].name = errors[j].name /\ errors[i].kind # errors[j].kind

\* C5: a name declared both as an injected fixture (non-empty args) and as a
\* value list fails validation with ConflictingBinding for that name,
\* whichever of the two is declared first.
C5_ConflictingBinding ==
    PastValidation =>
        \A i \in KindIdx(items, "ValueList") : \A k \in InjectedIdx(items) :
            items[k].name = items[i].name =>
                pc = "invalid" /\ Reported("ConflictingBinding", items[i].name)

C5_Witness ==
    /\ pc = "invalid"
    /\ \E i \in KindIdx(items, "ValueList") : \E k \in InjectedIdx(items) :
          k < i /\ items[k].name = items[i].name
    /\ \E i \in KindIdx(items, "ValueList") : \E k \in InjectedIdx(items) :
          i < k /\ items[k].name = items[i].name
    /\ Reported("ConflictingBinding", "f")

\* C6: a name injected as a fixture more than once fails validation with
\* DuplicateInjection for that name, also with identical argument values and
\* whatever other items are present.
C6_DuplicateInjection ==
    PastValidation =>
        \A i, k \in InjectedIdx(items) :
            (i # k /\ items[k].name = items[i].name) =>
                pc = "invalid" /\ Reported("DuplicateInjection", items[i].name)

C6_Witness ==
    /\ pc = "invalid"
    /\ \E i, k \in InjectedIdx(items) : i # k /\ items[i] = items[k]
    /\ KindIdx(items, "ValueList") # {}
    /\ errors = <<Error("DuplicateInjection", "f")>>

FirstBad(es) ==
    CHOOSE i \in 1..Len(es) :
        /\ ~RsTestItem_parse(es[i]).ok
        /\ \A k \in 1..(i - 1) : RsTestItem_parse(es[k]).ok

\* C7: a value list with zero values is always rejected, with
\* EmptyValueList naming the axis, so no model that reaches resolution or
\* expansion holds a value list without values.
C7_EmptyValueList ==
    /\ (PastValidation /\ pc # "invalid") => V_Empty(items) = {}
    /\ pc = "invalid" =>
          \A i \in V_Empty(items) : Reported("EmptyValueList", items[i].name)
    /\ (pc # "start" /\ \E i \in 1..Len(entries) :
                            entries[i].form = "arrow" /\ entries[i].vals = <<>>) =>
          /\ pc = "parse_failed"
          /\ items = <<>>
          /\ (entries[FirstBad(entries)].form = "arrow" =>
                errors = <<Error("EmptyValueList", entries[FirstBad(entries)].name)>>)

C7_Witness ==
    /\ pc = "invalid"
    /\ V_Empty(items) # {}
    /\ Reported("EmptyValueList", "empty")

\* C8: validation fails with ArityMismatch for every case row whose number
\* of values differs from the number of case-arg names; in a validated model
\* every row has exactly that many values, bound positionally in declaration
\* order.
C8_Arity ==
    /\ pc = "invalid" => Count(errors, "ArityMismatch") = Cardinality(V_Arity(items))
    /\ (PastValidation /\ pc # "invalid") => V_Arity(items) = {}
    /\ pc = "expanded" =>
          \A i \in 1..Len(out) : out[i].case > 0 =>
              \A k \in 1..Cardinality(KindIdx(items, "CaseArgName")) :
                  out[i].bindings[k] =
                      Binding(OfKind(items, "CaseArgName")[k].name,
                              OfKind(items, "TestCase")[out[i].case].vals[k])

C8_Witness ==
    /\ pc = "invalid"
    /\ KindIdx(items, "CaseArgName") # {}
    /\ Count(errors, "ArityMismatch") = 2

(***************************************************************************)
(* The fixture reference graph, its cycles, and the traversal's variant.   *)
(***************************************************************************)
Nodes(its) == {its[i].name : i \in KindIdx(its, "Fixture")}

Edges(its) ==
    {e \in Nodes(its) \X Nodes(its) :
        /\ e[1] # e[2]
        /\ \E i \in KindIdx(its, "Fixture") :
              its[i].name = e[1] /\ \E k \in 1..Len(its[i].vals) : its[i].vals[k] = e[2]}

Compose(R, E) ==
    {<<x[1][1], x[2][2]>> : x \in {y \in R \X E : y[1][2] = y[2][1]}}

RECURSIVE Closure(_, _, _)
Closure(R, E, n) ==
    IF n = 0 THEN R ELSE Closure(R \cup Compose(R, E), E, n - 1)

HasCycle(its) ==
    \E a \in Nodes(its) :
        <<a, a>> \in Closure(Edges(its), Edges(its), Cardinality(Nodes(its)))

IsCyclePath(p, its) ==
    /\ Len(p) >= 3
    /\ p[1] = p[Len(p)]
    /\ \A i \in 1..(Len(p) - 1) : <<p[i], p[i + 1]>> \in Edges(its)

RECURSIVE SumRest(_)
SumRest(stk) == IF stk = <<>> THEN 0 ELSE Len(Head(stk).rest) + SumRest(Tail(stk))

\* what is left of the traversal: it decreases with every step
Measure ==
    Len(roots) + SumRest(stack) + Len(stack)
        + (Len(Flatten(MapSeq(OfKind(items, "Fixture"), LAMBDA f : f.vals))) + 2)
            * Cardinality(Nodes(items) \ (done \cup in_progress(stack)))

C9_State ==
    /\ pc \in {"resolved", "expanded"} => ~HasCycle(items)
    /\ pc = "cyclic" =>
          /\ HasCycle(items)
          /\ IsCyclePath(cycle, items)
          /\ errors = <<Error("CyclicFixtureDependency", cycle[1])>>
    /\ HasCycle(items) => out = <<>>
    /\ pc = "resolving" => ENABLED ResolveStep

\* C9: when the fixture reference graph has a cycle, resolution reports
\* CyclicFixtureDependency with a full cycle path and expansion never runs;
\* the traversal always ends: every step of it is enabled and decreases a
\* natural-number measure, on cyclic graphs too.
C9_Cycle ==
    /\ []C9_State
    /\ [][pc = "resolving" =>
             \/ pc' \in {"resolved", "cyclic"}
             \/ pc' = "resolving" /\ Measure' < Measure /\ Measure' >= 0]_vars

C9_Witness ==
    /\ pc = "cyclic"
    /\ cycle = <<"f", "n", "f">>
    /\ out = <<>>

(***************************************************************************)
(* extend_with_function_attrs on its own: the functions and the extractor  *)
(* results it is called with.                                              *)
(***************************************************************************)
Ordinal == <<"1", "2", "3", "4">>

ExtractErrors(who, k) == [i \in 1..k |-> ErrorOn("ExtractError", who, Ordinal[i])]

Results(who, v) == {Ok(v)} \cup {Err(ExtractErrors(who, k)) : k \in 1..MaxErrs}

FullEx ==
    [fixtures   : Results("fixtures", <<Fixture("fx", <<"42">>)>>),
     case_args  : Results("case_args", <<CaseArgName("arg")>>),
     cases      : Results("cases", <<TestCase(<<"1">>)>>),
     value_list : Results("value_list", <<ValueList("vl", <<"1", "2">>)>>),
     files_args : Results("files_args", <<"fa">>),
     glob       : {Ok(<<ValueList("fa", <<"p1", "p2">>)>>),
                   Err(ExtractErrors("to_value_list", 1))},
     excluded   : Results("excluded", <<"a">>),
     timeout    : Results("timeout", <<>>),
     futures    : Results("futures", <<"b">>),
     global_awt : Results("global_awt", TRUE)]

FnFieldNoJson == ItemFn(<<>>, <<FnArg("age", <<Attr("field", "path", "")>>)>>)

FnBadJson ==
    ItemFn(<<Attr("json", "list", "?"), Attr("global", "path", "")>>,
           <<FnArg("age", <<Attr("field", "path", "")>>),
             FnArg("user", <<Attr("data", "path", "")>>)>>)

FnFieldTwice ==
    ItemFn(<<Attr("json", "list", "resources/tests/*.json")>>,
           <<FnArg("age", <<Attr("field", "path", ""),
                            Attr("field", "list", "first_name")>>)>>)

ExtendFns == {FnAll, FnJson, FnFieldNoJson, FnBadJson, FnFieldTwice}

InitExtend ==
    /\ pc = "parsed"
    /\ entries = <<Entry("ident", "u", <<>>)>>
    /\ items = <<CaseArgName("u")>>
    /\ item_fn \in ExtendFns
    /\ ex \in FullEx
    /\ attributes = <<>>
    /\ arguments = ArgumentsInfo_default
    /\ result = Ok(<<>>)
    /\ errors = <<>>
    /\ roots = <<>>
    /\ stack = <<>>
    /\ done = {}
    /\ cycle = <<>>
    /\ out = <<>>
    /\ call = NoCall

NextExtend == Extend

SpecExtend == InitExtend /\ [][NextExtend]_vars

ErrsOf(rs) == Flatten(MapSeq(rs, LAMBDA r : r.errs))

ItemResults(fn, x) ==
    <<x.fixtures, x.case_args, x.cases, x.value_list, extract_files(fn).res,
      x.files_args>>

OtherResults(x) == <<x.excluded, x.timeout, x.futures, x.global_awt>>

\* the error of the conversion of the files args, which runs only when the
\* six item extractors succeeded
ConversionErrs(fn, x) ==
    IF ErrsOf(ItemResults(fn, x)) = <<>> /\ x.files_args.val # <<>> /\ ~x.glob.ok
    THEN x.glob.errs ELSE <<>>

\* C10 as stated: the returned error set is the concatenation of the error
\* sets of the ten extractors, and nothing else.
C10_Original ==
    [][(pc = "parsed" /\ pc' # "parsed") =>
          /\ result'.errs = ErrsOf(ItemResults(item_fn, ex)) \o ErrsOf(OtherResults(ex))
          /\ result'.ok <=> result'.errs = <<>>]_vars

\* C10, amended: every extractor runs even when an earlier one failed and
\* the returned error set is the concatenation of all their error sets,
\* extended, when the six item extractors all succeeded, by the error of the
\* conversion of the files args to value lists; the call succeeds only when
\* that set is empty.
C10_Aggregation ==
    [][(pc = "parsed" /\ pc' # "parsed") =>
          /\ result'.errs = ErrsOf(ItemResults(item_fn, ex))
                               \o ConversionErrs(item_fn, ex)
                               \o ErrsOf(OtherResults(ex))
          /\ result'.ok <=> result'.errs = <<>>
          /\ Len(result'.errs) = Len(ErrsOf(ItemResults(item_fn, ex)))
                                    + Len(ConversionErrs(item_fn, ex))
                                    + Len(ErrsOf(OtherResults(ex)))]_vars

C10_Witness ==
    /\ pc = "extend_failed"
    /\ \E i, j, k \in 1..Len(result.errs) :
          /\ i < j /\ j < k
          /\ result.errs[i].name = "fixtures"
          /\ result.errs[j].kind = "FileAttributeWithoutDataset"
          /\ result.errs[k].name = "timeout"

(***************************************************************************)
(* extract_files over functions whose first argument carries every         *)
(* sequence of markers up to MaxAttrs.                                     *)
(***************************************************************************)
JsonOk == Attr("json", "list", "resources/tests/*.json")

ArgAttrs ==
    { Attr("field", "path", ""), Attr("field", "list", "first_name"),
      Attr("field", "namevalue", "first_name"),
      Attr("data", "path", ""), Attr("data", "list", "?"),
      Attr("something_else", "path", "") }

FnAttrSeqs ==
    { <<>>, <<JsonOk>>,
      <<Attr("global", "path", ""), JsonOk, Attr("first", "path", "")>>,
      <<Attr("json", "path", ""), Attr("global", "path", "")>>,
      <<JsonOk, Attr("second", "path", ""), Attr("json", "list", "other/*.json")>>,
      <<JsonOk, Attr("json", "namevalue", "other/*.json"), Attr("third", "path", "")>> }

SecondArgAttrs ==
    { <<>>, <<Attr("data", "path", "")>>, <<Attr("field", "path", "")>>,
      <<Attr("something_else", "path", ""), Attr("field", "namevalue", "age")>> }

GenFns ==
    { ItemFn(fa, <<FnArg("", <<>>), FnArg("age", a1), FnArg("user", a2)>>) :
        fa \in FnAttrSeqs, a1 \in SeqsUpTo(ArgAttrs, MaxAttrs), a2 \in SecondArgAttrs }

FilesEx == { NoExtraction, [NoExtraction EXCEPT !.timeout = Err(ExtractErrors("timeout", 1))] }

InitFiles ==
    /\ pc = "parsed"
    /\ entries = <<Entry("ident", "u", <<>>)>>
    /\ items = <<CaseArgName("u")>>
    /\ item_fn \in GenFns
    /\ ex \in FilesEx
    /\ attributes = <<>>
    /\ arguments = ArgumentsInfo_default
    /\ result = Ok(<<>>)
    /\ errors = <<>>
    /\ roots = <<>>
    /\ stack = <<>>
    /\ done = {}
    /\ cycle = <<>>
    /\ out = <<>>
    /\ call = NoCall

NextFiles == Extend

SpecFiles == InitFiles /\ [][NextFiles]_vars

ExtendStep == pc = "parsed" /\ pc' # "parsed"

NoJson(fn) == \A i \in 1..Len(fn.attrs) : fn.attrs[i].name # "json"

Uses(arg, m) == {i \in 1..Len(arg.attrs) : arg.attrs[i].name = m}

Markers == {"field", "data"}

InErrs(es, e) == \E i \in 1..Len(es) : es[i] = e

\* C11: on a function with no json declaration every named argument that
\* carries a field or a data marker gets a FileAttributeWithoutDataset error,
\* extraction goes on to the later arguments and the result is Err with the
\* errors of all of them.
C11_FileAttributeWithoutDataset ==
    [][(ExtendStep /\ NoJson(item_fn)) =>
          \A i \in 1..Len(item_fn.args) : \A m \in Markers :
             (item_fn.args[i].name # "" /\ Uses(item_fn.args[i], m) # {}) =>
                /\ ~result'.ok
                /\ InErrs(result'.errs,
                          ErrorOn("FileAttributeWithoutDataset", item_fn.args[i].name, m))]_vars

\* the failing input has been processed: no data set, a field marker written
\* as name = value on the first argument only, and its only error is the one
\* of its syntax
C11_Witness ==
    /\ pc = "extend_failed"
    /\ NoJson(item_fn)
    /\ item_fn.args[2].attrs = <<Attr("field", "namevalue", "first_name")>>
    /\ item_fn.args[3].attrs = <<>>
    /\ result.errs = <<ErrorOn("AttributeSyntax", "", "field")>>

\* C12: every argument on which the field marker, or the data marker, is
\* used more than once gets a DuplicateAttributeUsage error for that marker,
\* whatever the form of the uses, and the other markers and arguments are
\* still processed.
C12_DuplicateAttributeUsage ==
    [][ExtendStep =>
          \A i \in 1..Len(item_fn.args) : \A m \in Markers :
             (item_fn.args[i].name # "" /\ Cardinality(Uses(item_fn.args[i], m)) > 1) =>
                /\ ~result'.ok
                /\ InErrs(result'.errs,
                          ErrorOn("DuplicateAttributeUsage", item_fn.args[i].name, m))]_vars

\* the failing input has been processed: the field marker used twice on the
\* first argument, the second time as name = value, under a data set, and
\* the only error is the one of the syntax of the second use
C12_Witness ==
    /\ pc = "extend_failed"
    /\ item_fn.args[2].attrs = <<Attr("field", "path", ""),
                                 Attr("field", "namevalue", "first_name")>>
    /\ item_fn.args[3].attrs = <<>>
    /\ ex = NoExtraction
    /\ result.errs = <<ErrorOn("AttributeSyntax", "", "field")>>

Recognized(a) == a.name \in {"json"}

KeptAttrs(attrs) == SelectSeq(attrs, LAMBDA a : ~Recognized(a))

OtherAttrs(attrs) == SelectSeq(attrs, LAMBDA a : a.name \notin Markers)

Nth(S, j) == CHOOSE i \in S : Cardinality({k \in S : k < i}) = j - 1

\* v holds exactly the items of kind k, in the order of the item sequence
IsViewOf(v, its, k) ==
    /\ Len(v) = Cardinality(KindIdx(its, k))
    /\ \A j \in 1..Len(v) : v[j] = its[Nth(KindIdx(its, k), j)]

\* C14: each of case_args, cases, fixtures and list_values yields exactly
\* the items of its variant in the order of the item sequence, none dropped
\* or duplicated; files yields the first Files item or none; each has_*
\* predicate is true iff the sequence holds an item of its variant.
C14_Views ==
    /\ IsViewOf(case_args(items), items, "CaseArgName")
    /\ IsViewOf(cases(items), items, "TestCase")
    /\ IsViewOf(fixtures(items), items, "Fixture")
    /\ IsViewOf(list_values(items), items, "ValueList")
    /\ files(items) = IF KindIdx(items, "Files") = {} THEN <<>>
                      ELSE <<items[Nth(KindIdx(items, "Files"), 1)]>>
    /\ has_case_args(items) <=> KindIdx(items, "CaseArgName") # {}
    /\ has_cases(items) <=> KindIdx(items, "TestCase") # {}
    /\ has_fixtures(items) <=> KindIdx(items, "Fixture") # {}
    /\ has_list_values(items) <=> KindIdx(items, "ValueList") # {}

\* two items of one variant around an item of another, and a data set
C14_Witness ==
    /\ pc = "built"
    /\ files(items) # <<>>
    /\ Len(cases(items)) = 2
    /\ \E i, j, k \in 1..Len(items) :
          /\ i < j /\ j < k
          /\ items[i].kind = "TestCase" /\ items[k].kind = "TestCase"
          /\ items[j].kind = "ValueList"

(***************************************************************************)
(* The attributes collection on its own: any sequence of add_trace and     *)
(* add_notraces calls on the collection parsed from the specification.     *)
(***************************************************************************)
TraceIdents == {"a", "b"}

\* what `:: ...` after the items may have been parsed to
ParsedAttrs ==
    { <<>>, <<Attribute_Attr("trace")>>, <<Attribute_Tagged("other", <<"a">>)>> }

InitTrace ==
    /\ pc = "attrs"
    /\ entries = <<>>
    /\ items = <<>>
    /\ item_fn = FnAll
    /\ ex = NoExtraction
    /\ attributes \in ParsedAttrs
    /\ arguments = ArgumentsInfo_default
    /\ result = Ok(<<>>)
    /\ errors = <<>>
    /\ roots = <<>>
    /\ stack = <<>>
    /\ done = {}
    /\ cycle = <<>>
    /\ out = <<>>
    /\ call = NoCall

AddTrace ==
    /\ pc = "attrs"
    /\ Len(attributes) < MaxCalls
    /\ \E id \in {"trace", "other"} :
          /\ attributes' = add_trace(attributes, id)
          /\ call' = Call("add_trace", <<id>>)
    /\ UNCHANGED <<pc, entries, item_fn, ex, items, arguments, result, errors,
                   roots, stack, done, cycle, out>>

AddNotraces ==
    /\ pc = "attrs"
    /\ Len(attributes) < MaxCalls
    /\ \E l \in SeqsUpTo(TraceIdents, 2) :
          /\ attributes' = add_notraces(attributes, l)
          /\ call' = Call("add_notraces", l)
    /\ UNCHANGED <<pc, entries, item_fn, ex, items, arguments, result, errors,
                   roots, stack, done, cycle, out>>

NextTrace ==
    \/ AddTrace
    \/ AddNotraces

SpecTrace == InitTrace /\ [][NextTrace]_vars

HasTrace(attrs) == Attribute_Attr("trace") \in {attrs[i] : i \in 1..Len(attrs)}

\* x is listed in a notrace entry
Listed(attrs, x) ==
    \E i \in 1..Len(attrs) :
        /\ attrs[i].tag = "Tagged" /\ attrs[i].id = "notrace"
        /\ x \in {attrs[i].args[j] : j \in 1..Len(attrs[i].args)}

\* C15: trace_me(x) is true iff the collection holds the `trace` attribute
\* and no notrace entry lists x; without `trace` it is false for every x.
C15_TraceMe ==
    \A x \in TraceIdents \cup {"c"} :
        /\ trace_me(attributes, x) <=> (HasTrace(attributes) /\ ~Listed(attributes, x))
        /\ ~HasTrace(attributes) => ~trace_me(attributes, x)

\* traced, one argument excluded and the other not, and an entry of another tag
C15_Witness ==
    /\ pc = "attrs"
    /\ Len(attributes) = 3
    /\ attributes[1] = Attribute_Tagged("other", <<"a">>)
    /\ HasTrace(attributes)
    /\ Listed(attributes, "b")
    /\ trace_me(attributes, "a")
    /\ ~trace_me(attributes, "b")

\* C20: over any sequence of add_trace and add_notraces calls should_trace
\* never changes from true to false; an identifier passed in an add_notraces
\* list is not traced after the call nor after any later call; add_notraces
\* with an empty list leaves the collection unchanged and with a non-empty
\* list appends exactly one notrace entry holding that list.
C20_TraceHistory ==
    [][/\ should_trace(attributes) => should_trace(attributes')
       /\ \A x \in TraceIdents :
             \/ Listed(attributes, x)
             \/ (call'.op = "add_notraces" /\ \E j \in 1..Len(call'.arg) : call'.arg[j] = x)
             => Listed(attributes', x) /\ ~trace_me(attributes', x)
       /\ call'.op = "add_notraces" =>
             attributes' = IF call'.arg = <<>> THEN attributes
                           ELSE Append(attributes,
                                       Attribute_Tagged("notrace", call'.arg))]_vars

\* tracing was on, then two arguments were excluded, then an empty list was added
C20_Witness ==
    /\ pc = "attrs"
    /\ Len(attributes) = 2
    /\ attributes[1] = Attribute_Attr("trace")
    /\ attributes[2] = Attribute_Tagged("notrace", <<"a", "b">>)
    /\ call = Call("add_notraces", <<>>)
    /\ should_trace(attributes)
    /\ ~trace_me(attributes, "a")

\* the item an inline entry was parsed to keeps the entry's name and values
FromEntry(it, e) == it.vals = e.vals /\ (it.kind = "TestCase" \/ it.name = e.name)

InlineOrder ==
    (pc = "start" /\ pc' = "parsed") =>
        /\ Len(items') = Len(entries')
        /\ \A i \in 1..Len(items') : FromEntry(items'[i], entries'[i])

\* the position of the argument called name in the function's signature
DeclPos(fn, name) == CHOOSE i \in 1..Len(fn.args) : fn.args[i].name = name

\* C16 as stated: the items collected from the annotations of the arguments
\* appear in the order in which the arguments are declared.
C16_Original ==
    [][/\ InlineOrder
       /\ (pc = "parsed" /\ pc' = "built") =>
             \A i, j \in (Len(items) + 1)..Len(items') :
                (/\ i < j
                 /\ items'[i].name \in fn_params(item_fn)
                 /\ items'[j].name \in fn_params(item_fn))
                => DeclPos(item_fn, items'[i].name) <= DeclPos(item_fn, items'[j].name)]_vars

\* C16, amended: the items parsed from the inline syntax appear in the order
\* of the entries; extend_with_function_attrs keeps the existing items as a
\* prefix and appends the collected ones grouped by variant, in the fixed
\* order fixtures, case args, cases, value lists, data set, value lists of
\* the files args, each group in the order its extractor returned it.
C16_DeclarationOrder ==
    [][/\ InlineOrder
       /\ (pc = "parsed" /\ pc' = "built") =>
             items' = items \o ex.fixtures.val \o ex.case_args.val \o ex.cases.val
                            \o ex.value_list.val \o extract_files(item_fn).res.val
                            \o (IF ex.files_args.val = <<>> THEN <<>> ELSE ex.glob.val)]_vars

\* inline items of three variants followed by the collected ones
C16_Witness ==
    /\ pc = "built"
    /\ item_fn.args = FnDecl.args
    /\ Len(entries) = 3
    /\ entries[1].form = "arrow" /\ entries[2].form = "ident" /\ entries[3].form = "call"
    /\ Len(items) = 7
    /\ items[4].kind = "Fixture" /\ items[5].kind = "CaseArgName"
    /\ items[6].kind = "TestCase" /\ items[7].kind = "ValueList"

IsCaseCall(e) == e.form = "call" /\ e.name = "case"

\* the entries up to the first one that is refused
Accepted(es) ==
    {i \in 1..Len(es) :
        \A k \in 1..i : /\ es[k].form \in {"call", "arrow", "ident"}
                        /\ es[k].form = "arrow" => es[k].vals # <<>>}

\* C17: an entry `case(...)` is a TestCase; otherwise `name => ...` is a
\* ValueList; otherwise `name(...)` is a Fixture; otherwise a bare identifier,
\* `case` included, is a CaseArgName; anything else ends the parse with
\* 'Cannot parse it'.
C17_Precedence ==
    [][pc = "start" /\ pc' # "start" =>
          /\ result'.ok <=> Accepted(entries') = 1..Len(entries')
          /\ result'.ok =>
                \A i \in 1..Len(entries') :
                   /\ IsCaseCall(entries'[i]) => items'[i] = TestCase(entries'[i].vals)
                   /\ entries'[i].form = "arrow" =>
                         items'[i] = ValueList(entries'[i].name, entries'[i].vals)
                   /\ (entries'[i].form = "call" /\ ~IsCaseCall(entries'[i])) =>
                         items'[i] = Fixture(entries'[i].name, entries'[i].vals)
                   /\ entries'[i].form = "ident" =>
                         items'[i] = CaseArgName(entries'[i].name)
          /\ ~result'.ok =>
                \E i \in 1..Len(entries') :
                   /\ i \notin Accepted(entries') /\ \A k \in 1..(i - 1) : k \in Accepted(entries')
                   /\ result'.errs =
                         IF entries'[i].form = "arrow"
                         THEN <<Error("EmptyValueList", entries'[i].name)>>
                         ELSE <<Error("CannotParse", entries'[i].name)>>]_vars

\* `case, case(42)`: a case-arg name and a test case row, no error
C17_Witness ==
    /\ pc = "parsed"
    /\ entries = <<Entry("ident", "case", <<>>), Entry("call", "case", <<"42">>)>>
    /\ result.ok /\ errors = <<>>
    /\ case_args(items) = <<CaseArgName("case")>>
    /\ cases(items) = <<TestCase(<<"42">>)>>

IsPrefix(s, t) == Len(s) <= Len(t) /\ SubSeq(t, 1, Len(s)) = s

\* C18: when one of the six item extractors reports an error the call
\* returns Err and the item sequence is what it was before the call; on
\* success the items of before the call are a prefix of the new sequence.
C18_ItemsFrame ==
    [][ExtendStep =>
          /\ ErrsOf(ItemResults(item_fn, ex)) # <<>> => (~result'.ok /\ items' = items)
          /\ result'.ok => IsPrefix(items, items')]_vars

\* the fixtures extractor failed while others returned items, none was added
C18_Witness ==
    /\ pc = "extend_failed"
    /\ ~ex.fixtures.ok
    /\ ex.case_args.ok /\ ex.cases.ok /\ ex.value_list.ok
    /\ ex.excluded.ok /\ ex.timeout.ok /\ ex.futures.ok /\ ex.global_awt.ok
    /\ items = <<CaseArgName("u")>>

\* C19: when RsTestInfo::extend_with_function_attrs returns Err the
\* attributes and the arguments are what they were before the call; when it
\* returns Ok the notrace list, the global await flag and the futures of the
\* extractors have been applied.
C19_InfoFrame ==
    [][ExtendStep =>
          /\ ~result'.ok => (attributes' = attributes /\ arguments' = arguments)
          /\ result'.ok =>
                /\ attributes' = IF ex.excluded.val = <<>> THEN attributes
                                 ELSE Append(attributes,
                                             Attribute_Tagged("notrace", ex.excluded.val))
                /\ arguments'.global_await = ex.global_awt.val
                /\ arguments'.futures =
                      arguments.futures
                         \cup {ex.futures.val[i] : i \in 1..Len(ex.futures.val)}]_vars

\* only an item extractor failed: the notrace list and the markers the other
\* extractors returned were not applied
C19_Witness ==
    /\ pc = "extend_failed"
    /\ ~ex.cases.ok
    /\ ex.excluded = Ok(<<"a">>) /\ ex.futures = Ok(<<"b">>) /\ ex.global_awt = Ok(TRUE)
    /\ ex.timeout.ok
    /\ attributes = <<>>
    /\ arguments = ArgumentsInfo_default

\* the json locators of a function and those that resolve
Locators(fn) == {i \in 1..Len(fn.attrs) : fn.attrs[i].name = "json"}

Resolved(fn) ==
    {i \in Locators(fn) : fn.attrs[i].meta = "list" /\ fn.attrs[i].arg # "?"}

\* the arguments attached to the data set by their markers
DataArgs(fn) ==
    MapSeq(SelectSeq(fn.args, LAMBDA a : a.name # "" /\ Uses(a, "data") # {}),
           LAMBDA a : a.name)

FieldOf(a) ==
    LET u == a.attrs[Nth(Uses(a, "field"), 1)]
    IN  StructField(a.name, IF u.meta = "path" THEN <<>> ELSE <<u.arg>>)

FieldArgs(fn) ==
    MapSeq(SelectSeq(fn.args, LAMBDA a : a.name # "" /\ Uses(a, "field") # {}),
           FieldOf)

====
